---- MODULE Spec2Model ----
(***************************************************************************)
(* Model of the cronfleet backend's local cron inventory:                  *)
(*   app/services/cron_parsing.py     the two line parsers                 *)
(*   app/services/schedule.py         compute_next_runs                    *)
(*   app/services/local_cron_reader.py  the source readers, the schedule   *)
(*                                    inference and get_cron_jobs          *)
(*   app/models.py                    the CronJob record                   *)
(*                                                                         *)
(* A Python str is a sequence of symbols.  A symbol is a TLA+ string that  *)
(* stands for one character (" ", "#", "=", "@", "-", "/", ":") or for a   *)
(* word without whitespace or one of the characters the code tests for     *)
(* ("root", "run-parts", "/etc/cron.hourly").  A substring test of the     *)
(* code is a contiguous-subsequence test on symbols.                       *)
(***************************************************************************)
EXTENDS Integers, Sequences, FiniteSets, TLC

VARIABLES
    host,           \* filesystem, process environment and running account
    warned,         \* _WARNED_ROOT_SUDO_FAILED
    calls,          \* number of get_cron_jobs calls made by the process
    pc,             \* "idle" | "returned" | "raised": outcome of the last call
    exc,            \* the exception the last call raised ("none" otherwise)
    userOut,        \* what `crontab -l` did in the last call
    rootOut,        \* what `sudo -n crontab -l` did in the last call
    collected,      \* jobs after the last reader ran (local_cron_reader.py:299)
    filtered,       \* jobs after the suppression filter (local_cron_reader.py:302)
    result,         \* the list get_cron_jobs returned
    diags,          \* logger.warning calls of the last call, in order
    rootDiagTotal,  \* warnings about a failed privileged query, process lifetime
    line,           \* line-level runs: the input line
    pop,            \* line-level runs: the operation applied to it
    pres            \* line-level runs: what the operation gave

vars == <<host, warned, calls, pc, exc, userOut, rootOut, collected, filtered,
          result, diags, rootDiagTotal, line, pop, pres>>

(***************************************************************************)
(* Bounds                                                                  *)
(***************************************************************************)
MaxCalls == 2
MaxTail == 6

(***************************************************************************)
(* str operations                                                          *)
(***************************************************************************)
Whitespace == {" ", "\t"}

\* symbols for which str.isalnum() is false and which are not "_"
NonIdentSyms ==
    {" ", "\t", "#", "=", "@", "*", "/", "-", ":", ".", "run-parts",
     "/etc/cron.hourly", "/etc/cron.daily", "/etc/cron.weekly",
     "/etc/cron.monthly", "/etc/cron.d", "/etc/crontab", "/usr/bin/foo",
     "/bin/x", "1-5", "no crontab for", "NO CRONTAB FOR",
     "a password is required", "command not found: "}

IsIdentSym(c) == c \notin NonIdentSyms

RECURSIVE LStrip(_)
LStrip(s) ==
    IF s = <<>> THEN <<>>
    ELSE IF Head(s) \in Whitespace THEN LStrip(Tail(s)) ELSE s

RECURSIVE RStrip(_)
RStrip(s) ==
    IF s = <<>> THEN <<>>
    ELSE IF s[Len(s)] \in Whitespace THEN RStrip(SubSeq(s, 1, Len(s) - 1)) ELSE s

Strip(s) == RStrip(LStrip(s))

RECURSIVE SplitAcc(_, _, _)
SplitAcc(s, cur, acc) ==
    IF s = <<>> THEN (IF cur = <<>> THEN acc ELSE Append(acc, cur))
    ELSE IF Head(s) \in Whitespace
         THEN SplitAcc(Tail(s), <<>>, IF cur = <<>> THEN acc ELSE Append(acc, cur))
         ELSE SplitAcc(Tail(s), Append(cur, Head(s)), acc)

\* str.split(): the whitespace-delimited tokens
Split(s) == SplitAcc(s, <<>>, <<>>)

RECURSIVE Join(_)
\* " ".join(tokens)
Join(toks) ==
    IF toks = <<>> THEN <<>>
    ELSE IF Len(toks) = 1 THEN toks[1]
    ELSE toks[1] \o <<" ">> \o Join(Tail(toks))

\* w in s
Contains(s, w) ==
    \E i \in 1..(Len(s) - Len(w) + 1) : SubSeq(s, i, i + Len(w) - 1) = w

HasSym(s, c) == \E i \in 1..Len(s) : s[i] = c

StartsWithSym(s, c) == s # <<>> /\ s[1] = c

\* raw.split("=", 1)[0]
RECURSIVE BeforeFirstEq(_)
BeforeFirstEq(s) ==
    IF s = <<>> THEN <<>>
    ELSE IF Head(s) = "=" THEN <<>>
    ELSE <<Head(s)>> \o BeforeFirstEq(Tail(s))

LowerSym(c) == IF c = "NO CRONTAB FOR" THEN "no crontab for" ELSE c

\* str.lower()
Lower(s) == [i \in 1..Len(s) |-> LowerSym(s[i])]

(***************************************************************************)
(* cron_parsing.py                                                         *)
(***************************************************************************)
None == [kind |-> "none"]

ParsedCronLine(schedule, user, command) ==
    [kind |-> "parsed", schedule |-> schedule, user |-> user, command |-> command]

\* parse_system_cron_line from line 31 on: raw is the stripped line, parts
\* its tokens, min the token count of a standard line
SystemParts(raw, parts, min) ==
    IF raw = <<>> \/ StartsWithSym(raw, "#") THEN None
    ELSE IF Len(parts) = 1 /\ HasSym(parts[1], "=") THEN None
    ELSE IF StartsWithSym(parts[1], "@")
         THEN IF Len(parts) < 3 THEN None
              ELSE ParsedCronLine(parts[1], parts[2], Join(SubSeq(parts, 3, Len(parts))))
    ELSE IF Len(parts) < min THEN None
    ELSE ParsedCronLine(Join(SubSeq(parts, 1, 5)), parts[6],
                        Join(SubSeq(parts, 7, Len(parts))))

SystemRaw(raw, min) == SystemParts(raw, Split(raw), min)

parse_system_cron_line_min6(ln) == SystemRaw(Strip(ln), 6)

parse_system_cron_line(ln) == SystemRaw(Strip(ln), 7)

\* parse_user_cron_line from line 70 on: key is raw.split("=", 1)[0].strip()
UserParts(raw, key, parts) ==
    IF raw = <<>> \/ StartsWithSym(raw, "#") THEN None
    ELSE IF HasSym(raw, "=") /\ key # <<>>
            /\ \A i \in 1..Len(key) : IsIdentSym(key[i]) THEN None
    ELSE IF parts = <<>> THEN None
    ELSE IF StartsWithSym(parts[1], "@")
         THEN IF Len(parts) < 2 THEN None
              ELSE ParsedCronLine(parts[1], <<>>, Join(SubSeq(parts, 2, Len(parts))))
    ELSE IF Len(parts) < 6 THEN None
    ELSE ParsedCronLine(Join(SubSeq(parts, 1, 5)), <<>>,
                        Join(SubSeq(parts, 6, Len(parts))))

UserRaw(raw) == UserParts(raw, Strip(BeforeFirstEq(raw)), Split(raw))

parse_user_cron_line(ln) == UserRaw(Strip(ln))

\* LocalCronReader._is_ignorable_line
IgnorableStripped(s, parts) ==
    IF s = <<>> THEN TRUE
    ELSE IF StartsWithSym(s, "#") THEN TRUE
    ELSE HasSym(parts[1], "=") /\ ~StartsWithSym(parts[1], "@")

IgnorableRaw(s) == IgnorableStripped(s, Split(s))

IsIgnorableLine(ln) == IgnorableRaw(Strip(ln))

(***************************************************************************)
(* schedule.py                                                             *)
(***************************************************************************)
Shortcuts ==
    {<<"@", "hourly">>, <<"@", "daily">>, <<"@", "weekly">>, <<"@", "monthly">>,
     <<"@", "yearly">>, <<"@", "annually">>, <<"@", "midnight">>}

ValidFieldSyms == {"*", "0", "1", "2", "3", "30", "01", "1-5"}

\* croniter on an expression whose whitespace-delimited fields are toks
CroniterFields(schedule, toks) ==
    IF schedule \in Shortcuts THEN "ok"
    ELSE IF Len(toks) # 5 THEN "CroniterBadCronError"
    ELSE IF \E i \in 1..5 : toks[i] = <<"<crash>">> THEN "KeyError"
    ELSE IF \E i \in 1..5 : toks[i] = <<"*/0">> THEN "ValueError"
    ELSE IF \E i \in 1..5 : Len(toks[i]) # 1 \/ toks[i][1] \notin ValidFieldSyms
         THEN "CroniterBadCronError"
    ELSE IF toks[3] = <<"30">> /\ toks[4] = <<"2">> THEN "CroniterBadDateError"
    ELSE "ok"

\* The croniter library on an expression: "ok", or the exception it raises.
\* "99" is a value out of every field's range, day 30 of month 2 never comes,
\* "<crash>" stands for an expression on which croniter fails with an
\* exception that is none of the three compute_next_runs names.
Croniter(schedule) == CroniterFields(schedule, Split(schedule))

\* the next `count` = 3 fire times, as offsets from `start`
ThreeRuns == <<1, 2, 3>>

\* the try/except of compute_next_runs around an outcome o of croniter
NextRunsExcept(o, caught) ==
    IF o = "ok" THEN [exc |-> "none", runs |-> ThreeRuns]
    ELSE IF o \in caught THEN [exc |-> "none", runs |-> <<>>]
    ELSE [exc |-> o, runs |-> <<>>]

compute_next_runs_date_only(schedule) ==
    NextRunsExcept(Croniter(schedule), {"CroniterBadDateError"})

compute_next_runs(schedule) ==
    NextRunsExcept(Croniter(schedule),
                   {"CroniterBadCronError", "CroniterBadDateError", "ValueError"})

(***************************************************************************)
(* models.py, and the logger                                               *)
(***************************************************************************)
\* logger.warning(kind, where...)
Diag(kind, where) == [kind |-> kind, where |-> where]

\* CronJob(...): a pydantic BaseModel keeps the declared fields (id, system,
\* user, schedule, command, next_runs, description) and ignores any other
\* keyword, so `source` is not an attribute of the record.
CronJob(id, system, user, schedule, command, next_runs, source, description) ==
    [id |-> id, system |-> system, user |-> user, schedule |-> schedule,
     command |-> command, next_runs |-> next_runs, description |-> description]

NoJobs == [jobs |-> <<>>, diags |-> <<>>, exc |-> "none"]

(***************************************************************************)
(* local_cron_reader.py                                                    *)
(***************************************************************************)
QueryOutcomes == {"success", "no_crontab", "not_found", "failed", "not_executable"}

\* _run_command(cmd): subprocess.run may succeed (rc 0), exit non-zero, or
\* raise FileNotFoundError (caught) or another OSError (not caught)
_run_command(cmd0, outcome, account, content) ==
    CASE outcome = "success" ->
            [exc |-> "none", rc |-> 0, out |-> content, err |-> <<>>, diags |-> <<>>]
      [] outcome = "no_crontab" ->
            [exc |-> "none", rc |-> 1, out |-> <<>>,
             err |-> <<"no crontab for", " ", account>>, diags |-> <<>>]
      [] outcome = "not_found" ->
            [exc |-> "none", rc |-> 127, out |-> <<>>,
             err |-> <<"command not found: ", cmd0>>,
             diags |-> <<Diag("command not found", <<cmd0>>)>>]
      [] outcome = "failed" ->
            [exc |-> "none", rc |-> 1, out |-> <<>>,
             err |-> <<"a password is required">>, diags |-> <<>>]
      [] outcome = "not_executable" ->
            [exc |-> "PermissionError", rc |-> 0, out |-> <<>>, err |-> <<>>,
             diags |-> <<>>]

\* _safe_next_runs from line 102 on: r is what compute_next_runs(s) did
SafeRunsOf(s, r, context) ==
    IF r.exc # "none"
    THEN [runs |-> <<>>, diags |-> <<Diag("failed to compute next_runs", context)>>]
    ELSE IF s # <<>> /\ r.runs = <<>>
         THEN [runs |-> <<>>, diags |-> <<Diag("no next_runs computed", context)>>]
    ELSE [runs |-> r.runs, diags |-> <<>>]

\* _safe_next_runs from line 98 on: s is schedule.strip()
SafeRunsStripped(s, context) ==
    IF s = <<"@", "reboot">> THEN [runs |-> <<>>, diags |-> <<>>]
    ELSE SafeRunsOf(s, compute_next_runs(s), context)

\* LocalCronReader._safe_next_runs
_safe_next_runs(schedule, context) == SafeRunsStripped(Strip(schedule), context)

\* LocalCronReader._is_run_parts_for_dir
_is_run_parts_for_dir(command, target_dir) ==
    LET c == Strip(command)
    IN  Contains(c, <<"run-parts">>) /\ Contains(c, target_dir)

Localhost == <<"localhost">>

\* jobs.append(CronJob(..., next_runs=self._safe_next_runs(...), ...)): nr is
\* what _safe_next_runs returned and logged
AddJob(acc, nr, id, user, schedule, command, source, description) ==
    [acc EXCEPT
        !.diags = @ \o nr.diags,
        !.jobs = Append(@, CronJob(id, Localhost, user, schedule, command, nr.runs,
                                   source, description))]

\* the `if not parsed:` branch of a reader's loop: a warning unless the line
\* is ignorable, then `continue`
SkipLine(acc, ln, kind, where) ==
    [acc EXCEPT !.diags =
        IF ~IsIgnorableLine(ln) THEN Append(@, Diag(kind, where)) ELSE @]

\* one iteration of the loop of _get_current_user_crontab_jobs (lines 175-194)
UserCrontabLine(ln, n, username, parsed, job_id, acc) ==
    IF parsed = None
    THEN SkipLine(acc, ln, "failed to parse user crontab line",
                  <<username, ":", ToString(n)>>)
    ELSE AddJob(acc, _safe_next_runs(parsed.schedule, job_id), job_id, <<username>>,
                parsed.schedule, parsed.command, <<"user-crontab">>,
                <<"Quelle: user crontab (crontab -l)">>)

RECURSIVE UserCrontabLoop(_, _, _, _)
UserCrontabLoop(lines, n, username, acc) ==
    IF n > Len(lines) THEN acc
    ELSE UserCrontabLoop(lines, n + 1, username,
            UserCrontabLine(lines[n], n, username, parse_user_cron_line(lines[n]),
                            <<"user-crontab", ":", username, ":", ToString(n)>>, acc))

\* _get_current_user_crontab_jobs from line 164 on: r is what
\* _run_command(["crontab", "-l"]) returned, logged or raised
UserCrontabOf(username, r) ==
    IF r.exc # "none" THEN [jobs |-> <<>>, diags |-> r.diags, exc |-> r.exc]
    ELSE IF r.rc # 0
         THEN IF r.rc = 127
                 \/ Contains(Lower(IF r.err # <<>> THEN r.err ELSE r.out), <<"no crontab for">>)
              THEN [jobs |-> <<>>, diags |-> r.diags, exc |-> "none"]
              ELSE [jobs |-> <<>>, exc |-> "none",
                    diags |-> Append(r.diags, Diag("crontab -l failed", r.err))]
    ELSE UserCrontabLoop(r.out, 1, username,
                         [jobs |-> <<>>, diags |-> r.diags, exc |-> "none"])

\* LocalCronReader._get_current_user_crontab_jobs
_get_current_user_crontab_jobs(username, outcome, content) ==
    UserCrontabOf(username, _run_command("crontab", outcome, username, content))

\* one iteration of the loop of _get_root_crontab_jobs (lines 223-242)
RootCrontabLine(ln, n, parsed, job_id, acc) ==
    IF parsed = None
    THEN SkipLine(acc, ln, "failed to parse root crontab line", <<"root", ":", ToString(n)>>)
    ELSE AddJob(acc, _safe_next_runs(parsed.schedule, job_id), job_id, <<"root">>,
                parsed.schedule, parsed.command, <<"root-crontab">>,
                <<"Quelle: root user crontab (sudo -n crontab -l)">>)

RECURSIVE RootCrontabLoop(_, _, _)
RootCrontabLoop(lines, n, acc) ==
    IF n > Len(lines) THEN acc
    ELSE RootCrontabLoop(lines, n + 1,
            RootCrontabLine(lines[n], n, parse_user_cron_line(lines[n]),
                            <<"user-crontab", ":", "root", ":", ToString(n)>>, acc))

\* _get_root_crontab_jobs from line 204 on: r is what
\* _run_command(["sudo", "-n", "crontab", "-l"]) returned, logged or raised
RootCrontabOf(latch, r) ==
    IF r.exc # "none"
    THEN [jobs |-> <<>>, diags |-> r.diags, exc |-> r.exc, warned |-> latch]
    ELSE IF r.rc # 0
         THEN IF Contains(Lower(IF r.err # <<>> THEN r.err ELSE r.out), <<"no crontab for">>)
              THEN [jobs |-> <<>>, diags |-> r.diags, exc |-> "none", warned |-> latch]
              ELSE IF ~latch
              THEN [jobs |-> <<>>, exc |-> "none", warned |-> TRUE,
                    diags |-> Append(r.diags, Diag("sudo -n crontab -l failed", r.err))]
              ELSE [jobs |-> <<>>, diags |-> r.diags, exc |-> "none", warned |-> latch]
    ELSE RootCrontabLoop(r.out, 1,
            [jobs |-> <<>>, diags |-> r.diags, exc |-> "none", warned |-> latch])

\* LocalCronReader._get_root_crontab_jobs; `latch` is _WARNED_ROOT_SUDO_FAILED
\* on entry, .warned its value on exit
_get_root_crontab_jobs(latch, outcome, content) ==
    RootCrontabOf(latch, _run_command("sudo", outcome, "root", content))

(***************************************************************************)
(* str comparison: symbols in code-point order of their first character    *)
(***************************************************************************)
SymOrder ==
    <<"\t", " ", "#", "*", "*/0", "-", ".", "/", "/bin/backup-home.sh", "/bin/x",
      "/etc/cron.d", "/etc/cron.daily", "/etc/cron.hourly", "/etc/cron.monthly",
      "/etc/cron.weekly", "/etc/crontab", "/home/", "/usr/bin/foo",
      "/usr/bin/pacman -Syu --noconfirm", "0", "01", "0anacron", "0hourly", "1",
      "1-5", "2", "3", "30", "99", ":", "<crash>", "=", "@", "FOO", "PATH",
      "README", "alice", "app", "bak", "bar", "bogus", "cmd", "cron.d", "cron.hourly-",
      "daily", "dummy", "etc-crontab", "helper", "hourly", "local-root-system-update",
      "local-user-backup-home", "localhost", "locked", "logrotate", "reboot", "root",
      "root-crontab", "run-parts", "sub", "user-crontab", "zz-backup">>

SymRank(c) == CHOOSE i \in 1..Len(SymOrder) : SymOrder[i] = c

RECURSIVE StrLess(_, _)
\* a < b on str
StrLess(a, b) ==
    IF b = <<>> THEN FALSE
    ELSE IF a = <<>> THEN TRUE
    ELSE IF Head(a) = Head(b) THEN StrLess(Tail(a), Tail(b))
    ELSE SymRank(Head(a)) < SymRank(Head(b))

RECURSIVE TupleLess(_, _)
\* a < b on tuples of str
TupleLess(a, b) ==
    IF b = <<>> THEN FALSE
    ELSE IF a = <<>> THEN TRUE
    ELSE IF Head(a) = Head(b) THEN TupleLess(Tail(a), Tail(b))
    ELSE StrLess(Head(a), Head(b))

\* list with x inserted after the last element whose key is not above x's
RECURSIVE InsertByName(_, _)
InsertByName(sorted, f) ==
    IF sorted = <<>> THEN <<f>>
    ELSE IF StrLess(f.name, Head(sorted).name) THEN <<f>> \o sorted
    ELSE <<Head(sorted)>> \o InsertByName(Tail(sorted), f)

RECURSIVE SortedFilesAcc(_, _)
SortedFilesAcc(files, acc) ==
    IF files = <<>> THEN acc
    ELSE SortedFilesAcc(Tail(files), InsertByName(acc, Head(files)))

\* sorted(cron_d_dir.iterdir()): paths of one directory compare by name
SortedFiles(files) == SortedFilesAcc(files, <<>>)

(***************************************************************************)
(* local_cron_reader.py: schedule inference and the filesystem readers     *)
(***************************************************************************)
\* `if parsed and self._is_run_parts_for_dir(parsed.command, target_dir)`
IsRunPartsHit(parsed, target_dir) ==
    parsed # None /\ _is_run_parts_for_dir(parsed.command, target_dir)

\* first line number >= n whose system-dialect parse is a run-parts command
\* for target_dir, 0 when there is none (the loops at lines 136-141, 151-156)
RECURSIVE FirstRunPartsLine(_, _, _)
FirstRunPartsLine(lines, n, target_dir) ==
    IF n > Len(lines) THEN 0
    ELSE IF IsRunPartsHit(parse_system_cron_line(lines[n]), target_dir) THEN n
    ELSE FirstRunPartsLine(lines, n + 1, target_dir)

Fallback == [exc |-> "none", schedule |-> Join(<< <<"0">>, <<"*">>, <<"*">>, <<"*">>, <<"*">> >>),
             where |-> <<"default">>]

\* `return parsed.schedule, f"{path}:{lineno}"` for line n of the file at path
InferredAt(lines, n, path) ==
    [exc |-> "none", schedule |-> parse_system_cron_line(lines[n]).schedule,
     where |-> path \o <<":", ToString(n)>>]

\* /etc/crontab searched: line n is the first hit, 0 for none
CrontabHit(crontab, n) ==
    IF crontab.status = "ok" /\ n # 0 THEN InferredAt(crontab.lines, n, <<"/etc/crontab">>)
    ELSE Fallback

\* step 2 of _infer_schedule_from_run_parts: /etc/crontab, then the fallback
InferFromCrontab(crontab, target_dir) ==
    CrontabHit(crontab,
               FirstRunPartsLine(IF crontab.status = "ok" THEN crontab.lines ELSE <<>>,
                                 1, target_dir))

\* is f a readable regular file of /etc/cron.d whose line n is a hit
CronDHit(f, n) == f.isFile /\ f.readable /\ n # 0

\* step 1 of _infer_schedule_from_run_parts: the files of /etc/cron.d in order
RECURSIVE InferFromCronD(_, _, _)
InferFromCronD(files, crontab, target_dir) ==
    IF files = <<>> THEN InferFromCrontab(crontab, target_dir)
    ELSE IF CronDHit(Head(files), FirstRunPartsLine(Head(files).lines, 1, target_dir))
         THEN InferredAt(Head(files).lines,
                         FirstRunPartsLine(Head(files).lines, 1, target_dir),
                         <<"/etc/cron.d", "/">> \o Head(files).name)
    ELSE InferFromCronD(Tail(files), crontab, target_dir)

\* the search with its two steps in the other order: /etc/crontab first
InferCrontabFirst(crond, crontab, target_dir) ==
    LET c == InferFromCrontab(crontab, target_dir)
    IN  IF c.where # <<"default">> THEN c
        ELSE IF crond.status = "missing" THEN Fallback
        ELSE IF crond.status = "unlistable"
             THEN [exc |-> "PermissionError", schedule |-> <<>>, where |-> <<>>]
        ELSE InferFromCronD(SortedFiles(crond.files), [status |-> "missing"], target_dir)

\* LocalCronReader._infer_schedule_from_run_parts
_infer_schedule_from_run_parts(crond, crontab, target_dir) ==
    IF crond.status = "missing" THEN InferFromCrontab(crontab, target_dir)
    ELSE IF crond.status = "unlistable"
         THEN [exc |-> "PermissionError", schedule |-> <<>>, where |-> <<>>]
    ELSE InferFromCronD(SortedFiles(crond.files), crontab, target_dir)

HourlyDir == <<"/etc/cron.hourly">>

\* the description of a /etc/cron.hourly job (lines 331-335)
HourlyDescription(where) ==
    IF where = <<"default">>
    THEN <<"Quelle: /etc/cron.hourly (Schedule aktuell Annahme: stuendlich).">>
    ELSE <<"Quelle: /etc/cron.hourly (Schedule abgeleitet aus run-parts: ">>
         \o where \o <<").">>

\* one iteration of the loop of _read_cron_hourly_jobs (lines 324-349)
HourlyEntry(e, path, inferred, acc) ==
    IF ~e.isFile \/ ~e.exec THEN acc
    ELSE AddJob(acc, _safe_next_runs(inferred.schedule, path), <<"cron.hourly-">> \o e.name,
                <<"root">>, inferred.schedule, path, HourlyDir,
                HourlyDescription(inferred.where))

RECURSIVE HourlyLoop(_, _, _)
HourlyLoop(entries, inferred, acc) ==
    IF entries = <<>> THEN acc
    ELSE HourlyLoop(Tail(entries), inferred,
            HourlyEntry(Head(entries), HourlyDir \o <<"/">> \o Head(entries).name,
                        inferred, acc))

\* _read_cron_hourly_jobs from line 321 on
HourlyWith(hourly, inferred) ==
    IF inferred.exc # "none" THEN [NoJobs EXCEPT !.exc = inferred.exc]
    ELSE IF hourly.status = "unlistable" THEN [NoJobs EXCEPT !.exc = "PermissionError"]
    ELSE HourlyLoop(hourly.entries, inferred, NoJobs)

\* LocalCronReader._read_cron_hourly_jobs
_read_cron_hourly_jobs(hourly, crond, crontab) ==
    IF hourly.status = "missing" THEN NoJobs
    ELSE HourlyWith(hourly, _infer_schedule_from_run_parts(crond, crontab, HourlyDir))

\* one iteration of the loop of _read_etc_crontab_jobs (lines 366-385)
EtcCrontabLine(ln, n, parsed, where, acc) ==
    IF parsed = None
    THEN SkipLine(acc, ln, "failed to parse system crontab line", where)
    ELSE AddJob(acc, _safe_next_runs(parsed.schedule, where), <<"etc-crontab", ":", ToString(n)>>,
                parsed.user, parsed.schedule, parsed.command, <<"/etc/crontab">>,
                <<"Quelle: /etc/crontab">>)

RECURSIVE EtcCrontabLoop(_, _, _)
EtcCrontabLoop(lines, n, acc) ==
    IF n > Len(lines) THEN acc
    ELSE EtcCrontabLoop(lines, n + 1,
            EtcCrontabLine(lines[n], n, parse_system_cron_line(lines[n]),
                           <<"/etc/crontab", ":", ToString(n)>>, acc))

\* LocalCronReader._read_etc_crontab_jobs
_read_etc_crontab_jobs(crontab) ==
    IF crontab.status = "missing" THEN NoJobs
    ELSE IF crontab.status = "unreadable"
         THEN [NoJobs EXCEPT !.diags = <<Diag("failed to read /etc/crontab", <<"/etc/crontab">>)>>]
    ELSE EtcCrontabLoop(crontab.lines, 1, NoJobs)

\* one iteration of the inner loop of _read_cron_d_jobs (lines 406-430)
CronDLine(name, path, ln, n, parsed, acc) ==
    IF parsed = None
    THEN SkipLine(acc, ln, "failed to parse system cron.d line", path \o <<":", ToString(n)>>)
    ELSE AddJob(acc, _safe_next_runs(parsed.schedule, path \o <<":", ToString(n)>>),
                <<"cron.d", ":">> \o name \o <<":", ToString(n)>>,
                parsed.user, parsed.schedule, parsed.command, path, <<"Quelle: ">> \o path)

RECURSIVE CronDLineLoop(_, _, _, _)
CronDLineLoop(name, lines, n, acc) ==
    IF n > Len(lines) THEN acc
    ELSE CronDLineLoop(name, lines, n + 1,
            CronDLine(name, <<"/etc/cron.d", "/">> \o name, lines[n], n,
                      parse_system_cron_line(lines[n]), acc))

\* one iteration of the outer loop of _read_cron_d_jobs (lines 396-430)
CronDFile(f, acc) ==
    IF ~f.isFile THEN acc
    ELSE IF ~f.readable
         THEN [acc EXCEPT !.diags =
                  Append(@, Diag("failed to read", <<"/etc/cron.d", "/">> \o f.name))]
    ELSE CronDLineLoop(f.name, f.lines, 1, acc)

RECURSIVE CronDFileLoop(_, _)
CronDFileLoop(files, acc) ==
    IF files = <<>> THEN acc
    ELSE CronDFileLoop(Tail(files), CronDFile(Head(files), acc))

\* LocalCronReader._read_cron_d_jobs
_read_cron_d_jobs(crond) ==
    IF crond.status = "missing" THEN NoJobs
    ELSE IF crond.status = "unlistable" THEN [NoJobs EXCEPT !.exc = "PermissionError"]
    ELSE CronDFileLoop(SortedFiles(crond.files), NoJobs)

(***************************************************************************)
(* local_cron_reader.py: the aggregator                                    *)
(***************************************************************************)
RunPartsTargets ==
    {<<"/etc/cron.hourly">>, <<"/etc/cron.daily">>, <<"/etc/cron.weekly">>,
     <<"/etc/cron.monthly">>}

\* the filter without its CRONFLEET_INCLUDE_RUN_PARTS test
HideIgnoringToggle(includeRunParts, command) ==
    /\ Contains(command, <<"run-parts">>)
    /\ \E t \in RunPartsTargets : Contains(command, t)

\* LocalCronReader._should_hide_run_parts_aggregator; includeRunParts is
\* os.getenv("CRONFLEET_INCLUDE_RUN_PARTS", "0") == "1"
_should_hide_run_parts_aggregator(includeRunParts, command) ==
    IF includeRunParts THEN FALSE
    ELSE IF ~Contains(command, <<"run-parts">>) THEN FALSE
    ELSE \E t \in RunPartsTargets : Contains(command, t)

HasAttr(job, name) == name \in DOMAIN job

\* LocalCronReader._job_sort_key, for a job that has every attribute it reads
_job_sort_key(job) ==
    <<job.system, job.source, job.user, job.schedule, job.command, job.id>>

RECURSIVE InsertByKey(_, _)
InsertByKey(sorted, j) ==
    IF sorted = <<>> THEN <<j>>
    ELSE IF TupleLess(_job_sort_key(j), _job_sort_key(Head(sorted))) THEN <<j>> \o sorted
    ELSE <<Head(sorted)>> \o InsertByKey(Tail(sorted), j)

RECURSIVE SortAcc(_, _)
SortAcc(jobs, acc) ==
    IF jobs = <<>> THEN acc
    ELSE SortAcc(Tail(jobs), InsertByKey(acc, Head(jobs)))

\* jobs.sort(key=self._job_sort_key): the key is computed for every element
\* first, and reading an attribute the record lacks raises AttributeError
SortJobs(jobs) ==
    IF \E i \in 1..Len(jobs) : ~HasAttr(jobs[i], "source")
    THEN [exc |-> "AttributeError", jobs |-> <<>>]
    ELSE [exc |-> "none", jobs |-> SortAcc(jobs, <<>>)]

\* what `crontab -l` prints for an account that has a crontab
CrontabOf(account) ==
    IF account = "root"
    THEN << Join(<< <<"*/0">>, <<"*">>, <<"*">>, <<"*">>, <<"*">>, <<"/bin/x">> >>),
            Join(<< <<"@", "hourly">>, <<"run-parts">>, <<"/etc/cron.hourly">> >>) >>
    ELSE << Join(<< <<"30">>, <<"2">>, <<"*">>, <<"*">>, <<"1-5">>, <<"/usr/bin/foo">> >>),
            Join(<< <<"FOO">>, <<"=">>, <<"bar">> >>),
            Join(<< <<"@", "reboot">>, <<"/bin/x">> >>),
            Join(<< <<"bogus">>, <<"cmd">> >>) >>

DummySchedule1 == Join(<< <<"0">>, <<"3">>, <<"*">>, <<"*">>, <<"*">> >>)
DummySchedule2 == Join(<< <<"30">>, <<"2">>, <<"*">>, <<"*">>, <<"1-5">> >>)

Raised(e, d, w) ==
    [exc |-> e, collected |-> <<>>, filtered |-> <<>>, result |-> <<>>,
     diags |-> d, warned |-> w]

\* the two dummy jobs of get_cron_jobs (lines 266-287)
DummyJobs(user) ==
    AddJob(AddJob(NoJobs,
                  _safe_next_runs(DummySchedule1, <<"dummy:local-root-system-update">>),
                  <<"local-root-system-update">>, <<"root">>, DummySchedule1,
                  <<"/usr/bin/pacman -Syu --noconfirm">>, <<"dummy">>,
                  <<"Beispiel: naechtliches System-Update (Dummy-Daten).">>),
           _safe_next_runs(DummySchedule2, <<"dummy:local-user-backup-home">>),
           <<"local-user-backup-home">>, <<user>>, DummySchedule2,
           <<"/home/", user, "/bin/backup-home.sh">>, <<"dummy">>,
           <<"Beispiel: User-Backup des Home-Verzeichnisses (Dummy-Daten).">>)

\* lines 302-307 of get_cron_jobs: the filter, the sort, the return
FilterAndSort(jobs, kept, d, w) ==
    [exc |-> SortJobs(kept).exc, collected |-> jobs, filtered |-> kept,
     result |-> SortJobs(kept).jobs, diags |-> d, warned |-> w]

Kept(includeRunParts, jobs) ==
    SelectSeq(jobs, LAMBDA j : ~_should_hide_run_parts_aggregator(includeRunParts, j.command))

\* lines 290-307 of get_cron_jobs: dm, u, r, hr, ec, cd are what the dummy
\* jobs and the five readers returned, logged or raised, in call order
Aggregate(h, latch, dm, u, r, hr, ec, cd) ==
    IF u.exc # "none" THEN Raised(u.exc, dm.diags \o u.diags, latch)
    ELSE IF r.exc # "none" THEN Raised(r.exc, dm.diags \o u.diags \o r.diags, r.warned)
    ELSE IF hr.exc # "none"
         THEN Raised(hr.exc, dm.diags \o u.diags \o r.diags \o hr.diags, r.warned)
    ELSE IF ec.exc # "none"
         THEN Raised(ec.exc, dm.diags \o u.diags \o r.diags \o hr.diags \o ec.diags,
                     r.warned)
    ELSE IF cd.exc # "none"
         THEN Raised(cd.exc,
                     dm.diags \o u.diags \o r.diags \o hr.diags \o ec.diags \o cd.diags,
                     r.warned)
    ELSE FilterAndSort(
            dm.jobs \o u.jobs \o r.jobs \o hr.jobs \o ec.jobs \o cd.jobs,
            Kept(h.includeRunParts,
                 dm.jobs \o u.jobs \o r.jobs \o hr.jobs \o ec.jobs \o cd.jobs),
            dm.diags \o u.diags \o r.diags \o hr.diags \o ec.diags \o cd.diags,
            r.warned)

\* LocalCronReader.get_cron_jobs on host h, with _WARNED_ROOT_SUDO_FAILED =
\* latch on entry and the two external queries ending as uo and ro
get_cron_jobs(h, latch, uo, ro) ==
    Aggregate(h, latch, DummyJobs(h.user),
              _get_current_user_crontab_jobs(h.user, uo, CrontabOf(h.user)),
              IF h.includeRoot
              THEN _get_root_crontab_jobs(latch, ro, CrontabOf("root"))
              ELSE [jobs |-> <<>>, diags |-> <<>>, exc |-> "none", warned |-> latch],
              _read_cron_hourly_jobs(h.hourly, h.crond, h.crontab),
              _read_etc_crontab_jobs(h.crontab),
              _read_cron_d_jobs(h.crond))

(***************************************************************************)
(* The hosts the process may run on                                        *)
(***************************************************************************)
Entry(name, isFile, exec) == [name |-> name, isFile |-> isFile, exec |-> exec]

File(name, isFile, readable, lines) ==
    [name |-> name, isFile |-> isFile, readable |-> readable, lines |-> lines]

DispatchHourly(minute) ==
    Join(<< <<minute>>, <<"*">>, <<"*">>, <<"*">>, <<"*">>, <<"root">>, <<"run-parts">>,
            <<"/etc/cron.hourly">> >>)

SystemJob == Join(<< <<"0">>, <<"3">>, <<"*">>, <<"*">>, <<"*">>, <<"root">>, <<"/usr/bin/foo">> >>)

HourlyStates ==
    { [status |-> "missing", entries |-> <<>>],
      [status |-> "unlistable", entries |-> <<>>],
      [status |-> "ok",
       entries |-> << Entry(<<"zz-backup">>, TRUE, TRUE),
                      Entry(<<"run-parts", "-", "helper">>, TRUE, TRUE),
                      Entry(<<"README">>, TRUE, FALSE),
                      Entry(<<"sub">>, FALSE, TRUE) >>],
      [status |-> "ok", entries |-> << Entry(<<"0anacron">>, TRUE, TRUE) >>] }

CrontabStates ==
    { [status |-> "missing", lines |-> <<>>],
      [status |-> "unreadable", lines |-> <<>>],
      [status |-> "ok",
       lines |-> << <<"PATH", "=", "/usr/bin/foo">>, DispatchHourly("01"), SystemJob >>],
      [status |-> "ok",
       lines |-> << Join(<< <<"bogus">>, <<"cmd">> >>),
                    Join(<< <<"99">>, <<"99">>, <<"99">>, <<"99">>, <<"99">>, <<"root">>,
                            <<"/usr/bin/foo">> >>),
                    Join(<< <<"@", "reboot">>, <<"root">>, <<"/bin/x">> >>),
                    Join(<< <<"0">>, <<"3">>, <<"*">>, <<"*">>, <<"*">>, <<"root">>,
                            <<"run-parts">>, <<"/etc/cron.hourly", ".", "bak">> >>) >>] }

CronDStates ==
    { [status |-> "missing", files |-> <<>>],
      [status |-> "unlistable", files |-> <<>>],
      [status |-> "ok",
       files |-> << File(<<"app">>, TRUE, TRUE, << SystemJob, <<"bogus">> >>),
                    File(<<"0hourly">>, TRUE, TRUE,
                         << <<"#", " ", "cmd">>, DispatchHourly("30") >>) >>],
      [status |-> "ok",
       files |-> << File(<<"locked">>, TRUE, FALSE, <<>>),
                    File(<<"sub">>, FALSE, TRUE, <<>>),
                    File(<<"daily">>, TRUE, TRUE,
                         << Join(<< <<"<crash>">>, <<"*">>, <<"*">>, <<"*">>, <<"*">>,
                                    <<"root">>, <<"/bin/x">> >>),
                            Join(<< <<"0">>, <<"0">>, <<"30">>, <<"2">>, <<"*">>, <<"root">>,
                                    <<"/bin/x">> >>),
                            Join(<< <<"@", "daily">>, <<"root">>, <<"run-parts">>,
                                    <<"/etc/cron.daily">> >>) >>) >>] }

Accounts == {"root", "alice"}

\* /etc/cron.daily: on every host a directory with one executable script.  No
\* reader lists it; only the suppression filter names it (line 259).
CronDaily == [status |-> "ok", entries |-> << Entry(<<"logrotate">>, TRUE, TRUE) >>]

Hosts ==
    [includeRunParts : BOOLEAN, includeRoot : BOOLEAN, user : Accounts,
     hourly : HourlyStates, crontab : CrontabStates, crond : CronDStates]

(***************************************************************************)
(* The process: any number of get_cron_jobs calls on one host              *)
(***************************************************************************)
NoLine == <<>>

IsRootQueryFailureDiag(d) ==
    \/ d.kind = "sudo -n crontab -l failed"
    \/ d.kind = "command not found" /\ d.where = <<"sudo">>

Init ==
    /\ host \in Hosts
    /\ warned = FALSE
    /\ calls = 0
    /\ pc = "idle"
    /\ exc = "none"
    /\ userOut = "not_run"
    /\ rootOut = "not_run"
    /\ collected = <<>>
    /\ filtered = <<>>
    /\ result = <<>>
    /\ diags = <<>>
    /\ rootDiagTotal = 0
    /\ line = NoLine
    /\ pop = "none"
    /\ pres = None

\* one request to /crons/local: get_local_cron_jobs() -> get_cron_jobs()
GetCronJobs ==
    /\ pop = "none"
    /\ calls < MaxCalls
    /\ \E uo \in QueryOutcomes :
       \E ro \in (IF host.includeRoot THEN QueryOutcomes ELSE {"not_run"}) :
       \E r \in {get_cron_jobs(host, warned, uo, ro)} :
              /\ userOut' = uo
              /\ rootOut' = (IF uo = "not_executable" THEN "not_run" ELSE ro)
              /\ warned' = r.warned
              /\ exc' = r.exc
              /\ pc' = (IF r.exc = "none" THEN "returned" ELSE "raised")
              /\ collected' = r.collected
              /\ filtered' = r.filtered
              /\ result' = r.result
              /\ diags' = r.diags
              /\ rootDiagTotal' = rootDiagTotal
                    + Cardinality({i \in 1..Len(r.diags) : IsRootQueryFailureDiag(r.diags[i])})
    /\ calls' = calls + 1
    /\ UNCHANGED <<host, line, pop, pres>>

Next == GetCronJobs

Spec == Init /\ [][Next]_vars

(***************************************************************************)
(* Line-level runs: one input line handed to a parser, or to a reader as   *)
(* the first line of its source, followed by a line that parses            *)
(***************************************************************************)
FirstTokens ==
    { <<"@", "daily">>, <<"@">>, <<"0">>, <<"PATH", "=", "/usr/bin/foo">>, <<"=">>,
      <<"FOO", "-", "bar", "=", "1">>, <<"#">>, <<"#", "cmd">>, <<"FOO">>,
      <<"@", "FOO", "=", "1">>, <<"=", "bar">> }

SecondTokens == { <<"*">>, <<"=", "bar">>, <<"root">>, <<"#">> }

\* the i-th token after the second, in the two kinds of tail
TailTok(kind, i) ==
    IF i <= 3 THEN <<"*">>
    ELSE IF i = 4 THEN (IF kind = 1 THEN <<"root">> ELSE <<"FOO", "=", "1">>)
    ELSE IF i = 5 THEN <<"run-parts">>
    ELSE IF i = 6 THEN <<"/etc/cron.hourly">>
    ELSE <<"cmd">>

TailOf(kind, k) == [i \in 1..k |-> TailTok(kind, i)]

TokenLists ==
    {<<>>} \cup { <<f>> : f \in FirstTokens }
           \cup { <<f, t>> \o TailOf(kind, k) :
                    f \in FirstTokens, t \in SecondTokens, kind \in {1, 2}, k \in 0..MaxTail }

RECURSIVE JoinWith(_, _)
JoinWith(toks, sep) ==
    IF toks = <<>> THEN <<>>
    ELSE IF Len(toks) = 1 THEN toks[1]
    ELSE toks[1] \o sep \o JoinWith(Tail(toks), sep)

Lines ==
    { lead \o JoinWith(toks, sep) \o trail :
        toks \in TokenLists, sep \in {<<" ">>, <<"\t", " ">>},
        lead \in {<<>>, <<" ">>}, trail \in {<<>>, <<"\t">>} }

IdleHost == CHOOSE h \in Hosts :
    /\ h.hourly.status = "missing" /\ h.crontab.status = "missing"
    /\ h.crond.status = "missing" /\ ~h.includeRoot /\ ~h.includeRunParts
    /\ h.user = "alice"

InitLines ==
    /\ host = IdleHost
    /\ warned = FALSE
    /\ calls = 0
    /\ pc = "idle"
    /\ exc = "none"
    /\ userOut = "not_run"
    /\ rootOut = "not_run"
    /\ collected = <<>>
    /\ filtered = <<>>
    /\ result = <<>>
    /\ diags = <<>>
    /\ rootDiagTotal = 0
    /\ line \in Lines
    /\ pop = "input"
    /\ pres = None

Apply(op, value) ==
    /\ pop = "input"
    /\ pop' = op
    /\ pres' = value
    /\ UNCHANGED <<host, warned, calls, pc, exc, userOut, rootOut, collected, filtered,
                   result, diags, rootDiagTotal, line>>

ParseSystemCronLine == Apply("parse_system_cron_line", parse_system_cron_line(line))

ParseUserCronLine == Apply("parse_user_cron_line", parse_user_cron_line(line))

ReadEtcCrontab ==
    Apply("etc_crontab", _read_etc_crontab_jobs([status |-> "ok", lines |-> <<line, SystemJob>>]))

ReadCronD ==
    Apply("cron_d",
          _read_cron_d_jobs([status |-> "ok",
                             files |-> << File(<<"app">>, TRUE, TRUE, <<line, SystemJob>>) >>]))

ReadUserCrontab ==
    Apply("user_crontab",
          _get_current_user_crontab_jobs("alice", "success", <<line, CrontabOf("alice")[1]>>))

ReadRootCrontab ==
    Apply("root_crontab",
          _get_root_crontab_jobs(FALSE, "success", <<line, CrontabOf("alice")[1]>>))

NextLines ==
    \/ ParseSystemCronLine
    \/ ParseUserCronLine
    \/ ReadEtcCrontab
    \/ ReadCronD
    \/ ReadUserCrontab
    \/ ReadRootCrontab

LineSpec == InitLines /\ [][NextLines]_vars

(***************************************************************************)
(* Properties of get_cron_jobs                                             *)
(***************************************************************************)
Called == calls > 0

\* every reader ran to its end: the call got as far as the filter and the sort
CollectionCompleted == Called /\ exc \in {"none", "AttributeError"}

IsDispatcherCommand(command) ==
    /\ Contains(command, <<"run-parts">>)
    /\ \E t \in RunPartsTargets : Contains(command, t)

\* C1: get_cron_jobs always returns a list and never raises, whatever each
\* source does.
C1_AlwaysReturnsList == Called => (pc = "returned" /\ exc = "none")

\* C2: get_cron_jobs returns its list in non-decreasing order of
\* (system, source, user, schedule, command, id).
C2_ReturnsSortedList ==
    Called =>
        /\ pc = "returned"
        /\ \A i \in 1..Len(result) : HasAttr(result[i], "source")
        /\ \A i, j \in 1..Len(result) :
              i < j => ~TupleLess(_job_sort_key(result[j]), _job_sort_key(result[i]))

\* C3: with the include-dispatcher toggle off no record of the output is a
\* run-parts command naming a convention directory; with the toggle on every
\* collected record is in the output.
C3_FilterOnOutput ==
    CollectionCompleted =>
        /\ ~host.includeRunParts =>
              \A i \in 1..Len(result) : ~IsDispatcherCommand(result[i].command)
        /\ host.includeRunParts =>
              \A i \in 1..Len(collected) : \E j \in 1..Len(result) : result[j] = collected[i]

\* C4: no two records of one call's result have the same id.  The result is
\* the filtered list, sorted in place, so the ids are those of `filtered`.
C4_UniqueIds ==
    CollectionCompleted =>
        \A i, j \in 1..Len(filtered) : i # j => filtered[i].id # filtered[j].id

\* C5: every regular, executable entry of /etc/cron.hourly has exactly one
\* record in the list get_cron_jobs holds for return, with the entry's path as
\* command, user root, the inferred schedule and a description naming the
\* place the schedule was found.
C5_HourlyEntries ==
    (CollectionCompleted /\ host.hourly.status = "ok") =>
        LET inferred == _infer_schedule_from_run_parts(host.crond, host.crontab, HourlyDir)
        IN  \A k \in 1..Len(host.hourly.entries) :
              LET e == host.hourly.entries[k]
                  path == HourlyDir \o <<"/">> \o e.name
                  recs == {i \in 1..Len(filtered) : filtered[i].command = path}
              IN  (e.isFile /\ e.exec) =>
                    /\ Cardinality(recs) = 1
                    /\ \A i \in recs :
                          /\ filtered[i].user = <<"root">>
                          /\ filtered[i].schedule = inferred.schedule
                          /\ inferred.where # <<"default">> =>
                                Contains(filtered[i].description, inferred.where)

\* the lines of the line-based sources the last call read: id of the record a
\* line gives, the context its schedule is computed under, its parse
ReadLines ==
    LET ut == CrontabOf(host.user)
        rt == CrontabOf("root")
        fs == host.crond.files
    IN  (IF userOut = "success"
         THEN { [id |-> <<"user-crontab", ":", host.user, ":", ToString(n)>>,
                 ctx |-> <<"user-crontab", ":", host.user, ":", ToString(n)>>,
                 parsed |-> parse_user_cron_line(ut[n])] : n \in 1..Len(ut) }
         ELSE {})
        \cup
        (IF host.includeRoot /\ rootOut = "success"
         THEN { [id |-> <<"user-crontab", ":", "root", ":", ToString(n)>>,
                 ctx |-> <<"user-crontab", ":", "root", ":", ToString(n)>>,
                 parsed |-> parse_user_cron_line(rt[n])] : n \in 1..Len(rt) }
         ELSE {})
        \cup
        (IF host.crontab.status = "ok"
         THEN { [id |-> <<"etc-crontab", ":", ToString(n)>>,
                 ctx |-> <<"/etc/crontab", ":", ToString(n)>>,
                 parsed |-> parse_system_cron_line(host.crontab.lines[n])] :
                    n \in 1..Len(host.crontab.lines) }
         ELSE {})
        \cup
        UNION { IF host.crond.status = "ok" /\ fs[k].isFile /\ fs[k].readable
                THEN { [id |-> <<"cron.d", ":">> \o fs[k].name \o <<":", ToString(n)>>,
                        ctx |-> <<"/etc/cron.d", "/">> \o fs[k].name \o <<":", ToString(n)>>,
                        parsed |-> parse_system_cron_line(fs[k].lines[n])] :
                           n \in 1..Len(fs[k].lines) }
                ELSE {} : k \in 1..Len(fs) }

OnBoot == <<"@", "reboot">>

HasDiag(kind, where) == \E i \in 1..Len(diags) : diags[i] = Diag(kind, where)

\* C6: a line that parses is never dropped because of its schedule: with an
\* on-boot, invalid or calculator-crashing schedule its record is collected
\* with next_runs = [] and the readers go on; compute_next_runs returns []
\* for an invalid expression (logged as "no next_runs computed", not as a
\* failure of the calculator); no call ends in a schedule exception.
C6_ScheduleNeverDrops ==
    /\ exc \in {"none", "AttributeError", "PermissionError"}
    /\ CollectionCompleted =>
          \A sl \in ReadLines :
              sl.parsed # None =>
                 LET s == sl.parsed.schedule
                     o == Croniter(s)
                 IN  /\ \E i \in 1..Len(collected) :
                           /\ collected[i].id = sl.id
                           /\ collected[i].schedule = s
                           /\ collected[i].command = sl.parsed.command
                           /\ (s = OnBoot \/ o # "ok") => collected[i].next_runs = <<>>
                           /\ (s # OnBoot /\ o = "ok") => collected[i].next_runs = ThreeRuns
                     /\ (s # OnBoot /\ o \in {"CroniterBadCronError", "CroniterBadDateError",
                                              "ValueError"}) =>
                           /\ HasDiag("no next_runs computed", sl.ctx)
                           /\ ~HasDiag("failed to compute next_runs", sl.ctx)

\* a crashing schedule's record is collected with no next runs, and records of
\* later lines follow it
C6_Witness ==
    /\ CollectionCompleted
    /\ \E i, j, k \in 1..Len(collected) :
          /\ i < j /\ j < k
          /\ Croniter(collected[i].schedule) = "KeyError"
          /\ collected[i].next_runs = <<>>
          /\ Croniter(collected[j].schedule) = "CroniterBadDateError"
          /\ collected[j].next_runs = <<>>
          /\ collected[k].next_runs = ThreeRuns

\* the diagnostics of the current-account crontab query of the last call
UserQueryDiags ==
    {i \in 1..Len(diags) :
        \/ diags[i].kind = "crontab -l failed"
        \/ diags[i].kind = "command not found" /\ diags[i].where = <<"crontab">>}

UserRecords ==
    {i \in 1..Len(collected) :
        collected[i].description = <<"Quelle: user crontab (crontab -l)">>}

\* C8: "no crontab installed" and "crontab not found" give zero records and
\* no diagnostic during the current-account read; any other non-zero exit
\* gives zero records and exactly one diagnostic.
C8_BenignAbsenceIsSilent ==
    Called =>
        /\ userOut \in {"no_crontab", "not_found"} =>
              UserQueryDiags = {} /\ UserRecords = {}
        /\ userOut = "failed" =>
              Cardinality(UserQueryDiags) = 1 /\ UserRecords = {}

\* C9: over all calls of a process at most one diagnostic is emitted for
\* failures of the privileged crontab query, and the warned-once latch is
\* never reset.
C9_AtMostOneRootDiag == rootDiagTotal <= 1 /\ (calls = 0 => ~warned)

(***************************************************************************)
(* Properties of the parsers and of the readers' handling of one line      *)
(***************************************************************************)
Toks == Split(line)

Blank == Toks = <<>>

Comment == ~Blank /\ Toks[1][1] = "#"

IsShortcutForm == ~Blank /\ Toks[1][1] = "@"

\* system dialect: the line is a single bare KEY=VALUE token
SystemEnv == Len(Toks) = 1 /\ HasSym(Toks[1], "=")

\* user dialect as claimed: the first token has the form IDENTIFIER=...
UserEnvFirstToken ==
    /\ ~Blank
    /\ \E k \in 2..Len(Toks[1]) :
          Toks[1][k] = "=" /\ \A i \in 1..(k - 1) : IsIdentSym(Toks[1][i])

\* user dialect as amended: the text before the line's first "=", trimmed,
\* is a non-empty IDENTIFIER (so "KEY = value" is an assignment too)
UserEnvBeforeEq ==
    LET raw == Strip(line)
    IN  \E k \in 1..Len(raw) :
          /\ raw[k] = "="
          /\ \A i \in 1..(k - 1) : raw[i] # "="
          /\ LET key == Strip(SubSeq(raw, 1, k - 1))
             IN  key # <<>> /\ \A i \in 1..Len(key) : IsIdentSym(key[i])

SystemMin == IF IsShortcutForm THEN 3 ELSE 7

UserMin == IF IsShortcutForm THEN 2 ELSE 6

ExpectedSystem ==
    IF Len(Toks) < SystemMin THEN None
    ELSE IF IsShortcutForm
         THEN ParsedCronLine(Toks[1], Toks[2], Join(SubSeq(Toks, 3, Len(Toks))))
         ELSE ParsedCronLine(Join(SubSeq(Toks, 1, 5)), Toks[6], Join(SubSeq(Toks, 7, Len(Toks))))

ExpectedUser ==
    IF Len(Toks) < UserMin THEN None
    ELSE IF IsShortcutForm
         THEN ParsedCronLine(Toks[1], <<>>, Join(SubSeq(Toks, 2, Len(Toks))))
         ELSE ParsedCronLine(Join(SubSeq(Toks, 1, 5)), <<>>, Join(SubSeq(Toks, 6, Len(Toks))))

\* C7 as claimed: a line that is not blank, not a comment and not an
\* environment assignment (user dialect: first token IDENTIFIER=...) parses
\* exactly when it has the dialect's minimum token count, to the shortcut or
\* the five joined fields, the user token or "", and the joined rest.
C7_ParseByTokenCount ==
    /\ (pop = "parse_system_cron_line" /\ ~Blank /\ ~Comment /\ ~SystemEnv) =>
          pres = ExpectedSystem
    /\ (pop = "parse_user_cron_line" /\ ~Blank /\ ~Comment /\ ~UserEnvFirstToken) =>
          pres = ExpectedUser

\* C7 as amended: the same, with the user dialect's environment assignment
\* being a line whose text before its first "=", trimmed, is an IDENTIFIER.
C7_ParseByTokenCountAmended ==
    /\ (pop = "parse_system_cron_line" /\ ~Blank /\ ~Comment /\ ~SystemEnv) =>
          pres = ExpectedSystem
    /\ (pop = "parse_user_cron_line" /\ ~Blank /\ ~Comment /\ ~UserEnvBeforeEq) =>
          pres = ExpectedUser

\* a standard-form user line of six or more tokens has parsed, its command
\* being several tokens joined by single spaces although the line separates
\* them by more
C7_Witness ==
    /\ pop = "parse_user_cron_line"
    /\ ~IsShortcutForm
    /\ Len(Toks) > 6
    /\ pres # None
    /\ pres.command = Join(SubSeq(Toks, 6, Len(Toks)))
    /\ Len(line) > Len(Join(Toks))

ReaderOps == {"etc_crontab", "cron_d", "user_crontab", "root_crontab"}

SystemReaderOps == {"etc_crontab", "cron_d"}

ParseDiagKinds ==
    {"failed to parse system crontab line", "failed to parse system cron.d line",
     "failed to parse user crontab line", "failed to parse root crontab line"}

ParseDiagEmitted == \E i \in 1..Len(pres.diags) : pres.diags[i].kind \in ParseDiagKinds

\* the line fails its dialect's minimum-shape rule without being blank, a
\* comment or an environment assignment of the dialect
Unparseable ==
    /\ ~Blank /\ ~Comment
    /\ IF pop \in SystemReaderOps
       THEN ~SystemEnv /\ Len(Toks) < SystemMin
       ELSE ~UserEnvFirstToken /\ Len(Toks) < UserMin

Ignorable ==
    Blank \/ Comment \/ (IF pop \in SystemReaderOps THEN SystemEnv ELSE UserEnvFirstToken)

\* C10: in every line-based reader a line emits a parse diagnostic exactly
\* when it is unparseable; a blank, comment or environment-assignment line
\* emits none; either way the line gives no record and the reader goes on to
\* the next line.
C10_DiagIffUnparseable ==
    pop \in ReaderOps =>
        /\ ParseDiagEmitted <=> Unparseable
        /\ Ignorable => ~ParseDiagEmitted
        /\ (Unparseable \/ Ignorable) => Len(pres.jobs) = 1
        /\ Len(pres.jobs) >= 1

(***************************************************************************)
(* Properties of the suppression filter and of schedule inference          *)
(***************************************************************************)
\* the entries of convention directory t on the host
DirEntries(t) ==
    IF t = HourlyDir
    THEN (IF host.hourly.status = "ok" THEN host.hourly.entries ELSE <<>>)
    ELSE IF t = <<"/etc/cron.daily">> THEN CronDaily.entries
    ELSE <<>>

\* indices of the collected records the filter removed
Suppressed == {i \in 1..Len(collected) : \A j \in 1..Len(filtered) : filtered[j] # collected[i]}

\* list `jobs` has exactly one record whose command is the path of entry e of t
HasEntryRecord(jobs, t, e) ==
    Cardinality({j \in 1..Len(jobs) : jobs[j].command = t \o <<"/">> \o e.name}) = 1

\* C11: whenever the filter removes a record whose command is a run-parts
\* call naming a convention directory, the list get_cron_jobs holds for return
\* has one per-entry record for every executable entry of that directory.
C11_SuppressedIsRedundant ==
    CollectionCompleted =>
        \A i \in Suppressed : \A t \in RunPartsTargets :
            (Contains(collected[i].command, <<"run-parts">>) /\ Contains(collected[i].command, t))
            => \A k \in 1..Len(DirEntries(t)) :
                  (DirEntries(t)[k].isFile /\ DirEntries(t)[k].exec)
                  => HasEntryRecord(filtered, t, DirEntries(t)[k])

\* does command invoke run-parts with directory t as one of its arguments
InvokesRunPartsOn(command, t) ==
    LET toks == Split(command)
    IN  /\ Len(toks) >= 2
        /\ toks[1] = <<"run-parts">>
        /\ \E i \in 2..Len(toks) : toks[i] = t

\* the places schedule inference may search, in search order: the lines of
\* the regular readable files of /etc/cron.d by file name, then those of
\* /etc/crontab
RECURSIVE FileLines(_, _, _)
FileLines(path, lines, n) ==
    IF n > Len(lines) THEN <<>>
    ELSE << [where |-> path \o <<":", ToString(n)>>, text |-> lines[n]] >>
         \o FileLines(path, lines, n + 1)

RECURSIVE CronDPlaces(_)
CronDPlaces(files) ==
    IF files = <<>> THEN <<>>
    ELSE (IF Head(files).isFile /\ Head(files).readable
          THEN FileLines(<<"/etc/cron.d", "/">> \o Head(files).name, Head(files).lines, 1)
          ELSE <<>>)
         \o CronDPlaces(Tail(files))

SearchPlaces(crond, crontab) ==
    (IF crond.status = "ok" THEN CronDPlaces(SortedFiles(crond.files)) ELSE <<>>)
    \o (IF crontab.status = "ok" THEN FileLines(<<"/etc/crontab">>, crontab.lines, 1) ELSE <<>>)

IsMatch(place, t) ==
    /\ parse_system_cron_line(place.text) # None
    /\ InvokesRunPartsOn(parse_system_cron_line(place.text).command, t)

\* the (schedule, label) of the first matching place, or the fallback
FirstMatch(places, t) ==
    IF \E i \in 1..Len(places) : IsMatch(places[i], t)
    THEN LET i == CHOOSE k \in 1..Len(places) :
                      IsMatch(places[k], t) /\ \A m \in 1..(k - 1) : ~IsMatch(places[m], t)
         IN  [schedule |-> parse_system_cron_line(places[i].text).schedule,
              where |-> places[i].where]
    ELSE [schedule |-> Fallback.schedule, where |-> <<"default">>]

\* the last call reached _infer_schedule_from_run_parts("/etc/cron.hourly")
InferenceRan ==
    /\ Called
    /\ userOut # "not_executable" /\ rootOut # "not_executable"
    /\ host.hourly.status # "missing"

\* C12: _infer_schedule_from_run_parts(target_dir) returns the schedule and
\* the file:line label of the first parseable line that invokes run-parts on
\* target_dir, the files of /etc/cron.d in name order before /etc/crontab, and
\* ("0 * * * *", "default") when no line matches.
C12_InferFirstMatch ==
    InferenceRan =>
        LET got == _infer_schedule_from_run_parts(host.crond, host.crontab, HourlyDir)
            want == FirstMatch(SearchPlaces(host.crond, host.crontab), HourlyDir)
        IN  /\ got.exc = "none"
            /\ got.schedule = want.schedule
            /\ got.where = want.where

====
